---- MODULE Spec2Model ----
(***************************************************************************)
(* A model of src/src/celeba/train_wgan_gp.py.                             *)
(*                                                                         *)
(* Part I models train() as a sequential program: one action per statement *)
(* (or per group of statements that cannot be told apart from outside),    *)
(* with pc as the position in the function.  Tensors are not computed in   *)
(* part I: a loss is identified by the forward pass that produced it, a    *)
(* network's parameters by the number of optimizer updates applied to      *)
(* them, and the gradient buffer of a network by the sequence of backward  *)
(* passes accumulated in it since it was last cleared.                     *)
(*                                                                         *)
(* Part II models gradient_penalty() numerically, on a small grid of       *)
(* fixed-point numbers extended with the IEEE special values.              *)
(***************************************************************************)
EXTENDS Integers, Sequences, FiniteSets, TLC

VARIABLES
    \* ---- train(): arguments
    epochs,        \* <<"int", E>> or <<"inf">>
    n_critic,      \* number of critic updates per generator update
    nBatches,      \* number of batches the loader yields per epoch
    \* ---- train(): environment
    now,           \* the wall clock, in seconds
    files,         \* ./snapshots: file name -> parameters stored in it
    \* ---- train(): locals and the objects they refer to
    pc,            \* position in train()
    timestamp,     \* the run's timestamp (line 114)
    writer,        \* "none" | "open" | "closed"
    epoch,         \* loop variable of line 130 (-1: not yet bound)
    batch,         \* number of batches taken from the loader in this epoch
    it,            \* number of iterations of the n_critic loop begun
    writer_step,   \* line 129
    loss_D,        \* Unbound, or <<the forward pass that computed it>>
    loss_G,
    params,        \* network -> number of updates applied to its parameters
    grads,         \* network -> backward passes accumulated in .grad
    steps,         \* history of optimizer.step() calls: "D" / "G"
    scalars,       \* what writer.add_scalar recorded
    images,        \* what writer.add_images recorded
    info,          \* what logging.info recorded
    exc,           \* NoException, or <<type, position>> of the exception
                   \* that ended train()
    \* ---- gradient_penalty(): arguments and locals
    gp_pc,
    gp_args,
    gp_locals

trainVars == <<epochs, n_critic, nBatches, now, files, pc, timestamp, writer,
               epoch, batch, it, writer_step, loss_D, loss_G, params, grads,
               steps, scalars, images, info, exc>>
gpVars == <<gp_pc, gp_args, gp_locals>>
vars == <<trainVars, gpVars>>

(***************************************************************************)
(* Bounds of the model.                                                    *)
(***************************************************************************)
MaxEpochs == 3
MaxBatches == 3
MaxNCritic == 3
MaxClock == 2
\* gradient_penalty(): the largest batch, the grid's resolution (units per
\* 1.0) and the largest finite magnitude (in units)
MaxBatchSize == 2
Scale == 4
FMax == 200
\* gradient_penalty(): the number of elements of one sample (channels x
\* height x width)
SampleSize == 2


(***************************************************************************)
(* Part I: train()                                                         *)
(***************************************************************************)
Unbound == <<>>
NoException == <<>>

Nets == {"G", "D"}

\* The parameters each optimizer was constructed over.
optimizer_G == {"G"}
optimizer_D_AllParameters == {"G", "D"}
optimizer_D == {"D"}

\* The networks whose parameters the graph of each loss reaches.  The fake
\* batch of the critic loss is detached from G; the generator loss runs D on
\* G's output.
CriticLossGraph == {"D"}
GeneratorLossGraph == {"G", "D"}

\* optimizer.zero_grad(), loss.backward(), optimizer.step()
ZeroGradSkipped(opt) == grads
ZeroGrad(opt) ==
    [n \in Nets |-> IF n \in opt THEN <<>> ELSE grads[n]]
Backward(loss, graph) ==
    [n \in Nets |-> IF n \in graph THEN Append(grads[n], loss) ELSE grads[n]]
OptimizerStep(opt) ==
    [n \in Nets |-> IF n \in opt THEN params[n] + 1 ELSE params[n]]

\* G.state_dict(), D.state_dict()
StateDict(n) == <<n, params[n]>>

\* The timestamp in the names of the checkpoint files: the local of line 114.
SnapshotStampNow == now
SnapshotStamp == timestamp
GPath == <<"gw", SnapshotStamp>>
DPath == <<"dw", SnapshotStamp>>
TorchSave(content, path) == (path :> content) @@ files

\* The checkpoint files an earlier run (at second 0) may have left.
NoFiles == <<>>
OldFiles == (<<"gw", 0>> :> <<"G", 0>>) @@ (<<"dw", 0>> :> <<"D", 0>>)

\* Whether the iterator of line 130 has no further epoch: range(E) ends,
\* itertools.count() does not.
ExhaustedOneLate == epochs[1] = "int" /\ epoch + 1 > epochs[2]
ExhaustedInfAsRange == epoch + 1 >= (IF epochs[1] = "int" THEN epochs[2] ELSE 1)
Exhausted == epochs[1] = "int" /\ epoch + 1 >= epochs[2]

\* Whether the loader (line 131) and range(n_critic) (line 138) have a next
\* element.
LoaderHasNext == batch < nBatches
CriticRangeHasNextInclusive == it <= n_critic
CriticRangeHasNext == it < n_critic

\* line 165
NextWriterStepPerEpoch == IF batch = nBatches THEN 0 ELSE writer_step + 1
NextWriterStep == writer_step + 1

EpochsArgs == {<<"inf">>} \cup {<<"int", e>> : e \in 0..MaxEpochs}

Running == {"setup", "epoch_head", "batch_head", "critic_head", "d_zero",
            "d_fwd", "d_bwd", "d_step", "g_zero", "g_fwd", "g_bwd", "g_step",
            "log_d", "log_g", "incr", "sample", "save_g", "save_d",
            "log_saved", "summary", "close"}

InitTrain ==
    /\ epochs \in EpochsArgs
    /\ n_critic \in 0..MaxNCritic
    /\ nBatches \in 0..MaxBatches
    /\ now = 1
    /\ files \in {NoFiles, OldFiles}
    /\ pc = "setup"
    /\ timestamp = 0
    /\ writer = "none"
    /\ epoch = -1
    /\ batch = 0
    /\ it = 0
    /\ writer_step = 0
    /\ loss_D = Unbound
    /\ loss_G = Unbound
    /\ params = [n \in Nets |-> 0]
    /\ grads = [n \in Nets |-> <<>>]
    /\ steps = <<>>
    /\ scalars = <<>>
    /\ images = <<>>
    /\ info = <<>>
    /\ exc = NoException

\* train() has not been called (the state of part I in the behaviours of
\* part II).
TrainIdle ==
    /\ epochs = <<"int", 0>>
    /\ n_critic = 0
    /\ nBatches = 0
    /\ now = 1
    /\ files = NoFiles
    /\ pc = "idle"
    /\ timestamp = 0
    /\ writer = "none"
    /\ epoch = -1
    /\ batch = 0
    /\ it = 0
    /\ writer_step = 0
    /\ loss_D = Unbound
    /\ loss_G = Unbound
    /\ params = [n \in Nets |-> 0]
    /\ grads = [n \in Nets |-> <<>>]
    /\ steps = <<>>
    /\ scalars = <<>>
    /\ images = <<>>
    /\ info = <<>>
    /\ exc = NoException

argVars == <<epochs, n_critic, nBatches>>

\* A second passes.
Tick ==
    /\ pc \in Running
    /\ now < MaxClock
    /\ now' = now + 1
    /\ UNCHANGED <<argVars, files, pc, timestamp, writer, epoch, batch, it,
                   writer_step, loss_D, loss_G, params, grads, steps, scalars,
                   images, info, exc, gpVars>>

\* lines 114-129
Setup ==
    /\ pc = "setup"
    /\ timestamp' = now
    /\ writer' = "open"
    /\ writer_step' = 0
    /\ pc' = "epoch_head"
    /\ UNCHANGED <<argVars, now, files, epoch, batch, it, loss_D, loss_G,
                   params, grads, steps, scalars, images, info, exc, gpVars>>

\* line 130: the next epoch, or the end of the loop
EpochHead ==
    /\ pc = "epoch_head"
    /\ IF Exhausted
         THEN /\ pc' = "close"
              /\ UNCHANGED <<epoch, batch>>
         ELSE /\ epoch + 1 < MaxEpochs
              /\ epoch' = epoch + 1
              /\ batch' = 0
              /\ pc' = "batch_head"
    /\ UNCHANGED <<argVars, now, files, timestamp, writer, it, writer_step,
                   loss_D, loss_G, params, grads, steps, scalars, images,
                   info, exc, gpVars>>

\* lines 131-134: the next batch of the loader, or the end of the epoch
BatchHead ==
    /\ pc = "batch_head"
    /\ IF LoaderHasNext
         THEN /\ batch' = batch + 1
              /\ it' = 0
              /\ pc' = "critic_head"
         ELSE /\ pc' = "sample"
              /\ UNCHANGED <<batch, it>>
    /\ UNCHANGED <<argVars, now, files, timestamp, writer, epoch, writer_step,
                   loss_D, loss_G, params, grads, steps, scalars, images,
                   info, exc, gpVars>>

\* line 138
CriticHead ==
    /\ pc = "critic_head"
    /\ IF CriticRangeHasNext
         THEN /\ it' = it + 1
              /\ pc' = "d_zero"
         ELSE /\ pc' = "g_zero"
              /\ UNCHANGED it
    /\ UNCHANGED <<argVars, now, files, timestamp, writer, epoch, batch,
                   writer_step, loss_D, loss_G, params, grads, steps, scalars,
                   images, info, exc, gpVars>>

\* line 139
CriticZeroGrad ==
    /\ pc = "d_zero"
    /\ grads' = ZeroGrad(optimizer_D)
    /\ pc' = "d_fwd"
    /\ UNCHANGED <<argVars, now, files, timestamp, writer, epoch, batch, it,
                   writer_step, loss_D, loss_G, params, steps, scalars,
                   images, info, exc, gpVars>>

\* lines 140-149
CriticForward ==
    /\ pc = "d_fwd"
    /\ loss_D' = << <<"D", epoch, batch, it>> >>
    /\ pc' = "d_bwd"
    /\ UNCHANGED <<argVars, now, files, timestamp, writer, epoch, batch, it,
                   writer_step, loss_G, params, grads, steps, scalars,
                   images, info, exc, gpVars>>

\* line 150
CriticBackward ==
    /\ pc = "d_bwd"
    /\ grads' = Backward(loss_D[1], CriticLossGraph)
    /\ pc' = "d_step"
    /\ UNCHANGED <<argVars, now, files, timestamp, writer, epoch, batch, it,
                   writer_step, loss_D, loss_G, params, steps, scalars,
                   images, info, exc, gpVars>>

\* line 152
CriticStep ==
    /\ pc = "d_step"
    /\ params' = OptimizerStep(optimizer_D)
    /\ steps' = Append(steps, "D")
    /\ pc' = "critic_head"
    /\ UNCHANGED <<argVars, now, files, timestamp, writer, epoch, batch, it,
                   writer_step, loss_D, loss_G, grads, scalars, images, info,
                   exc, gpVars>>

\* line 155
GeneratorZeroGrad ==
    /\ pc = "g_zero"
    /\ grads' = ZeroGrad(optimizer_G)
    /\ pc' = "g_fwd"
    /\ UNCHANGED <<argVars, now, files, timestamp, writer, epoch, batch, it,
                   writer_step, loss_D, loss_G, params, steps, scalars,
                   images, info, exc, gpVars>>

\* lines 156-158
GeneratorForward ==
    /\ pc = "g_fwd"
    /\ loss_G' = << <<"G", epoch, batch>> >>
    /\ pc' = "g_bwd"
    /\ UNCHANGED <<argVars, now, files, timestamp, writer, epoch, batch, it,
                   writer_step, loss_D, params, grads, steps, scalars,
                   images, info, exc, gpVars>>

\* line 159
GeneratorBackward ==
    /\ pc = "g_bwd"
    /\ grads' = Backward(loss_G[1], GeneratorLossGraph)
    /\ pc' = "g_step"
    /\ UNCHANGED <<argVars, now, files, timestamp, writer, epoch, batch, it,
                   writer_step, loss_D, loss_G, params, steps, scalars,
                   images, info, exc, gpVars>>

\* line 160
GeneratorStep ==
    /\ pc = "g_step"
    /\ params' = OptimizerStep(optimizer_G)
    /\ steps' = Append(steps, "G")
    /\ pc' = "log_d"
    /\ UNCHANGED <<argVars, now, files, timestamp, writer, epoch, batch, it,
                   writer_step, loss_D, loss_G, grads, scalars, images, info,
                   exc, gpVars>>

\* line 163: reading loss_D before any assignment to it raises
LogCritic ==
    /\ pc = "log_d"
    /\ IF loss_D = Unbound
         THEN /\ pc' = "raised"
              /\ exc' = <<"UnboundLocalError", pc>>
              /\ UNCHANGED scalars
         ELSE /\ scalars' = Append(scalars, [tag |-> "Loss/Critic",
                                             value |-> loss_D[1],
                                             step |-> writer_step])
              /\ pc' = "log_g"
              /\ UNCHANGED exc
    /\ UNCHANGED <<argVars, now, files, timestamp, writer, epoch, batch, it,
                   writer_step, loss_D, loss_G, params, grads, steps, images,
                   info, gpVars>>

\* line 164
LogGenerator ==
    /\ pc = "log_g"
    /\ scalars' = Append(scalars, [tag |-> "Loss/Generator",
                                   value |-> loss_G[1],
                                   step |-> writer_step])
    /\ pc' = "incr"
    /\ UNCHANGED <<argVars, now, files, timestamp, writer, epoch, batch, it,
                   writer_step, loss_D, loss_G, params, grads, steps, images,
                   info, exc, gpVars>>

\* line 165
IncrementStep ==
    /\ pc = "incr"
    /\ writer_step' = NextWriterStep
    /\ pc' = "batch_head"
    /\ UNCHANGED <<argVars, now, files, timestamp, writer, epoch, batch, it,
                   loss_D, loss_G, params, grads, steps, scalars, images,
                   info, exc, gpVars>>

\* lines 168-173
LogSampleImages ==
    /\ pc = "sample"
    /\ images' = Append(images, epoch)
    /\ pc' = "save_g"
    /\ UNCHANGED <<argVars, now, files, timestamp, writer, epoch, batch, it,
                   writer_step, loss_D, loss_G, params, grads, steps, scalars,
                   info, exc, gpVars>>

\* line 176
SaveGenerator ==
    /\ pc = "save_g"
    /\ files' = TorchSave(StateDict("G"), GPath)
    /\ pc' = "save_d"
    /\ UNCHANGED <<argVars, now, timestamp, writer, epoch, batch, it,
                   writer_step, loss_D, loss_G, params, grads, steps, scalars,
                   images, info, exc, gpVars>>

\* line 177
SaveCritic ==
    /\ pc = "save_d"
    /\ files' = TorchSave(StateDict("D"), DPath)
    /\ pc' = "log_saved"
    /\ UNCHANGED <<argVars, now, timestamp, writer, epoch, batch, it,
                   writer_step, loss_D, loss_G, params, grads, steps, scalars,
                   images, info, exc, gpVars>>

\* lines 179-181
LogSaved ==
    /\ pc = "log_saved"
    /\ info' = Append(info, <<"saved", <<"gw", timestamp>>, <<"dw", timestamp>> >>)
    /\ pc' = "summary"
    /\ UNCHANGED <<argVars, now, files, timestamp, writer, epoch, batch, it,
                   writer_step, loss_D, loss_G, params, grads, steps, scalars,
                   images, exc, gpVars>>

\* lines 183-185: reading loss_D or loss_G before any assignment raises
LogSummary ==
    /\ pc = "summary"
    /\ IF loss_D = Unbound \/ loss_G = Unbound
         THEN /\ pc' = "raised"
              /\ exc' = <<"UnboundLocalError", pc>>
              /\ UNCHANGED info
         ELSE /\ info' = Append(info, <<"summary", epoch + 1, loss_D[1], loss_G[1]>>)
              /\ pc' = "epoch_head"
              /\ UNCHANGED exc
    /\ UNCHANGED <<argVars, now, files, timestamp, writer, epoch, batch, it,
                   writer_step, loss_D, loss_G, params, grads, steps, scalars,
                   images, gpVars>>

\* line 188
CloseWriter ==
    /\ pc = "close"
    /\ writer' = "closed"
    /\ pc' = "done"
    /\ UNCHANGED <<argVars, now, files, timestamp, writer_step, epoch, batch,
                   it, loss_D, loss_G, params, grads, steps, scalars, images,
                   info, exc, gpVars>>

\* What an exception does to the position in train(): nothing in train()
\* catches it, so it leaves the function.
UncaughtRetried(at) == at
Uncaught(at) == "raised"

\* The statement at pc raises (a runtime error of the tensor library, an I/O
\* error of the writer or of torch.save).
Raise ==
    /\ pc \in Running
    /\ pc' = Uncaught(pc)
    /\ exc' = <<"Exception", pc>>
    /\ UNCHANGED <<argVars, now, files, timestamp, writer, epoch, batch, it,
                   writer_step, loss_D, loss_G, params, grads, steps, scalars,
                   images, info, gpVars>>

Step ==
    \/ Setup
    \/ EpochHead
    \/ BatchHead
    \/ CriticHead
    \/ CriticZeroGrad
    \/ CriticForward
    \/ CriticBackward
    \/ CriticStep
    \/ GeneratorZeroGrad
    \/ GeneratorForward
    \/ GeneratorBackward
    \/ GeneratorStep
    \/ LogCritic
    \/ LogGenerator
    \/ IncrementStep
    \/ LogSampleImages
    \/ SaveGenerator
    \/ SaveCritic
    \/ LogSaved
    \/ LogSummary
    \/ CloseWriter


(***************************************************************************)
(* Part II: gradient_penalty()                                             *)
(*                                                                         *)
(* A float is a point of a grid of Scale units per 1.0, of magnitude at    *)
(* most FMax units, or one of the special values: <<"fin", n>>,            *)
(* <<"inf", 1>>, <<"inf", -1>>, <<"nan", 0>>.  An operation whose exact    *)
(* result lies off the grid rounds to the nearest point, and one whose     *)
(* result exceeds FMax overflows to an infinity, as float32 does.          *)
(***************************************************************************)
Fin(n) == <<"fin", n>>
PInf == <<"inf", 1>>
NInf == <<"inf", -1>>
NaN == <<"nan", 0>>

IsNaN(x) == x[1] = "nan"
IsInf(x) == x[1] = "inf"
IsFin(x) == x[1] = "fin"

Abs(n) == IF n < 0 THEN -n ELSE n
Sgn(n) == IF n < 0 THEN -1 ELSE IF n > 0 THEN 1 ELSE 0

\* The float nearest to n units; tensor.float() of a wider number.
ToFloat(n) == IF n > FMax THEN PInf ELSE IF n < -FMax THEN NInf ELSE Fin(n)

\* n / d rounded to the nearest integer, d > 0.
RoundDiv(n, d) == Sgn(n) * ((2 * Abs(n) + d) \div (2 * d))

ISqrt(n) == CHOOSE r \in 0..n : r * r <= n /\ (r + 1) * (r + 1) > n

FNeg(x) == IF IsNaN(x) THEN NaN ELSE <<x[1], -x[2]>>

FAdd(x, y) ==
    IF IsNaN(x) \/ IsNaN(y) THEN NaN
    ELSE IF IsInf(x) /\ IsInf(y) THEN (IF x[2] = y[2] THEN x ELSE NaN)
    ELSE IF IsInf(x) THEN x
    ELSE IF IsInf(y) THEN y
    ELSE ToFloat(x[2] + y[2])

FSub(x, y) == FAdd(x, FNeg(y))

FMul(x, y) ==
    IF IsNaN(x) \/ IsNaN(y) THEN NaN
    ELSE IF IsInf(x) \/ IsInf(y)
      THEN (IF Sgn(x[2]) * Sgn(y[2]) = 0 THEN NaN
            ELSE <<"inf", Sgn(x[2]) * Sgn(y[2])>>)
    ELSE ToFloat(RoundDiv(x[2] * y[2], Scale))

\* x / k for a positive count k
FDivCount(x, k) == IF IsFin(x) THEN Fin(RoundDiv(x[2], k)) ELSE x

FSqrt(x) ==
    IF IsNaN(x) \/ x[2] < 0 THEN NaN
    ELSE IF IsInf(x) THEN PInf
    ELSE Fin(ISqrt(x[2] * Scale))

RECURSIVE FSum(_)
FSum(xs) == IF xs = <<>> THEN Fin(0) ELSE FAdd(FSum(Tail(xs)), Head(xs))

One == Fin(Scale)

\* A sample, or a gradient, flattened (line 69): a first element and the
\* value of all the others.
Vec(a, b) == [k \in 1..SampleSize |-> IF k = 1 THEN a ELSE b]

\* line 74: clamp(min=1e-6); the smallest positive float of the grid stands
\* for 1e-6.  NaN stays NaN.
ClampMinValue == 1
Clamp(x) ==
    IF IsNaN(x) THEN NaN
    ELSE IF IsInf(x) THEN (IF x[2] > 0 THEN x ELSE Fin(ClampMinValue))
    ELSE IF x[2] < ClampMinValue THEN Fin(ClampMinValue) ELSE x

\* lines 46-47
real_samples == [i \in 1..Len(gp_args.real) |->
                    [k \in 1..SampleSize |-> ToFloat(gp_args.real[i][k])]]
fake_samples == [i \in 1..Len(gp_args.fake) |->
                    [k \in 1..SampleSize |-> ToFloat(gp_args.fake[i][k])]]

\* line 50
batch_size == Len(real_samples)

\* line 56, for a given alpha (one coefficient per sample, broadcast)
Interpolates(alpha) ==
    [i \in 1..batch_size |->
        [k \in 1..SampleSize |->
            FAdd(FMul(alpha[i], real_samples[i][k]),
                 FMul(FSub(One, alpha[i]), fake_samples[i][k]))]]

\* lines 58-68: the gradient of the critic's output at sample x, with respect
\* to x.  A critic is linear, D(x) = w . x, or quadratic, D(x) = c * |x|^2.
CriticGradient(D, x) ==
    IF D.kind = "linear" THEN D.w
    ELSE [k \in 1..SampleSize |-> FMul(D.c, FMul(Fin(2 * Scale), x[k]))]

\* lines 69, 74: the clamped L2 norm of each sample's gradient
Norm(g) == FSqrt(FSum([k \in 1..SampleSize |-> FMul(g[k], g[k])]))
GradientNorms(D, x) == [i \in 1..Len(x) |-> Clamp(Norm(CriticGradient(D, x[i])))]

\* line 75
SquaredDeviationUnsquared(n) == FSub(n, One)
SquaredDeviation(n) == FMul(FSub(n, One), FSub(n, One))
Mean(xs) == FDivCount(FSum(xs), Len(xs))

\* The arguments the model calls gradient_penalty() with.
SampleElems == {Vec(0, 0), Vec(Scale, -Scale), Vec(FMax + 1, 0)}
FakeElems == {Vec(0, 0), Vec(2 * Scale, Scale)}
AlphaValues == {Fin(0), Fin(Scale \div 2), Fin(Scale - 1)}
Critics ==
    {[kind |-> "linear", w |-> w] :
        w \in {Vec(Fin(0), Fin(0)), Vec(Fin(Scale), Fin(0)),
               Vec(Fin(3), Fin(4)), Vec(Fin(2 * Scale), Fin(-Scale)),
               Vec(PInf, Fin(0)), Vec(Fin(Scale), NaN)}}
    \cup {[kind |-> "quadratic", c |-> c] : c \in {Fin(Scale), Fin(-2 * Scale)}}
Factors == {Fin(-Scale), Fin(0), Fin(Scale), Fin(10 * Scale), PInf}

GpCalled ==
    /\ gp_pc = "call"
    /\ \E n \in 1..MaxBatchSize :
         gp_args \in [D : Critics,
                      real : [1..n -> SampleElems],
                      fake : [1..n -> FakeElems],
                      factor : Factors]
    /\ gp_locals = <<>>

\* lines 45-76.  alpha is what torch.rand draws; each local is bound to its
\* value once, in the order of the assignments.
GradientPenalty ==
    /\ gp_pc = "call"
    /\ \E alpha \in [1..batch_size -> AlphaValues] :
       \E interpolates \in {Interpolates(alpha)} :
       \E gradient_norms \in {GradientNorms(gp_args.D, interpolates)} :
       \E gradient_penalty \in
              {Mean([i \in 1..batch_size |-> SquaredDeviation(gradient_norms[i])])} :
            gp_locals' = [alpha |-> alpha,
                          interpolates |-> interpolates,
                          gradient_norms |-> gradient_norms,
                          gradient_penalty |-> gradient_penalty,
                          result |-> FMul(gp_args.factor, gradient_penalty)]
    /\ gp_pc' = "return"
    /\ UNCHANGED <<gp_args, trainVars>>

\* gradient_penalty() has not been called (the state of part II in the
\* behaviours of part I).
GpIdle ==
    /\ gp_pc = "idle"
    /\ gp_args = <<>>
    /\ gp_locals = <<>>

Init == InitTrain /\ GpIdle

Next == Step \/ Raise \/ Tick

Spec == Init /\ [][Next]_vars

InitGp == TrainIdle /\ GpCalled

NextGp == GradientPenalty

SpecGp == InitGp /\ [][NextGp]_vars

\* train() is one thread of control: while a statement can run, it does.
FairSpec == Spec /\ WF_vars(Step \/ Raise)


(***************************************************************************)
(* Properties of train()                                                   *)
(***************************************************************************)
\* The statement train() is at, or was at when it raised.
Pos == IF pc = "raised" THEN exc[2] ELSE pc

CriticBody == {"d_zero", "d_fwd", "d_bwd", "d_step"}
GeneratorBody == {"g_zero", "g_fwd", "g_bwd", "g_step"}
LoggingBody == {"log_d", "log_g", "incr"}
BatchBody == {"critic_head"} \cup CriticBody \cup GeneratorBody \cup LoggingBody
EpochTail == {"sample", "save_g", "save_d", "log_saved", "summary"}
BetweenEpochs == {"epoch_head", "close", "done"}

\* The number of batches whose loop body has run to its end.
BatchesCompleted ==
    IF epoch < 0 THEN 0
    ELSE epoch * nBatches + batch - (IF Pos \in BatchBody THEN 1 ELSE 0)

\* The number of epochs whose loop body has run to its end.
EpochsCompleted == IF Pos \in BetweenEpochs THEN epoch + 1 ELSE epoch

Rep(x, k) == [i \in 1..k |-> x]
Count(seq, x) == Cardinality({i \in 1..Len(seq) : seq[i] = x})

\* The optimizer steps of b whole batches: n_critic critic steps, then one
\* generator step, b times over.
RECURSIVE Schedule(_)
Schedule(b) ==
    IF b = 0 THEN <<>> ELSE Schedule(b - 1) \o Rep("D", n_critic) \o <<"G">>

\* The optimizer steps of the batch being processed.
StepsOfOpenBatch ==
    IF Pos \in CriticBody THEN Rep("D", it - 1)
    ELSE IF Pos = "critic_head" THEN Rep("D", it)
    ELSE IF Pos \in GeneratorBody THEN Rep("D", n_critic)
    ELSE IF Pos \in LoggingBody THEN Rep("D", n_critic) \o <<"G">>
    ELSE <<>>

\* C1: the optimizer steps taken so far are, batch after batch, n_critic
\* critic steps followed by one generator step: after b completed batches
\* there were n_critic * b critic steps and b generator steps, and within
\* the batch being processed every critic step precedes the generator step.
C1_UpdateSchedule ==
    /\ steps = Schedule(BatchesCompleted) \o StepsOfOpenBatch
    /\ Pos \notin BatchBody =>
         /\ Count(steps, "D") = n_critic * BatchesCompleted
         /\ Count(steps, "G") = BatchesCompleted

C1_Witness ==
    /\ pc = "batch_head"
    /\ n_critic = 2
    /\ BatchesCompleted = 3
    /\ steps = <<"D", "D", "G", "D", "D", "G", "D", "D", "G">>

\* What train(epochs = E) has done when it returns: E epochs, E * B batch
\* iterations, E end-of-epoch phases, the writer closed; nothing but that
\* with E = 0.
ReturnedAfterExactly(E) ==
    /\ EpochsCompleted = E
    /\ BatchesCompleted = E * nBatches
    /\ Count(steps, "G") = E * nBatches
    /\ Len(scalars) = 2 * E * nBatches
    /\ Len(images) = E
    /\ Len(info) = 2 * E
    /\ writer = "closed"
    /\ exc = NoException
    /\ E = 0 => /\ steps = <<>>
                /\ scalars = <<>>
                /\ files \in {NoFiles, OldFiles}

\* C2: with an integer epochs = E >= 0, train() ends (it returns, or a step
\* raises), and when it returns it has run exactly E epochs of B batches
\* each and closed the writer, which it closes at no earlier point; with
\* E = 0 it has processed no batch and written no checkpoint.
C2_TerminatesAfterEpochs ==
    (epochs[1] = "int") =>
        /\ <>(pc \in {"done", "raised"})
        /\ [](pc = "done" => ReturnedAfterExactly(epochs[2]))
        /\ [](writer = "closed" => pc = "done")

C2_Witness ==
    /\ pc = "done"
    /\ epochs = <<"int", 2>>
    /\ nBatches = 2
    /\ writer_step = 4
    /\ writer = "closed"

\* C3: with epochs = "inf" the epoch iterator is never exhausted, so the
\* epoch loop is never left: line 188 is not reached and the writer is not
\* closed.
C3_InfNeverReturns ==
    epochs[1] = "inf" =>
        /\ ~Exhausted
        /\ Pos \notin {"close", "done"}
        /\ writer # "closed"

C3_Witness ==
    /\ epochs[1] = "inf"
    /\ pc = "epoch_head"
    /\ epoch >= 1
    /\ Len(info) = 2 * (epoch + 1)

\* The checkpoint files this run has written.
RunFiles == DOMAIN files \ DOMAIN OldFiles

\* C4: once an epoch has completed, the run's checkpoint files are exactly
\* gw_<timestamp> and dw_<timestamp>, for the timestamp taken at the start;
\* between epochs they hold the current parameters of G and D, and while
\* epoch k + 1 is being trained they still hold those of the end of epoch k.
C4_TwoCheckpoints ==
    EpochsCompleted >= 1 =>
        /\ RunFiles = {<<"gw", timestamp>>, <<"dw", timestamp>>}
        /\ Pos \in BetweenEpochs =>
             /\ files[<<"gw", timestamp>>] = <<"G", params["G"]>>
             /\ files[<<"dw", timestamp>>] = <<"D", params["D"]>>
        /\ Pos \in BatchBody \cup {"batch_head", "sample", "save_g"} =>
             /\ files[<<"gw", timestamp>>] = <<"G", epoch * nBatches>>
             /\ files[<<"dw", timestamp>>] = <<"D", epoch * nBatches * n_critic>>

C4_Witness ==
    /\ pc = "epoch_head"
    /\ epoch = 1
    /\ now > timestamp
    /\ files = (<<"gw", timestamp>> :> <<"G", 4>>)
                 @@ (<<"dw", timestamp>> :> <<"D", 8>>) @@ OldFiles

\* The batch (counted from 0 over the whole run) that computed a loss.
BatchOfLoss(l) == l[2] * nBatches + l[3] - 1

\* C5: the scalars recorded so far are, for each completed batch in turn,
\* its critic loss and then its generator loss, both at the step equal to
\* the number of batches completed before it; writer_step equals the number
\* of batches completed, across epoch boundaries too.
C5_StepCounter ==
    /\ writer_step = BatchesCompleted
    /\ Len(scalars) = 2 * writer_step
                        + (IF Pos = "log_g" THEN 1 ELSE IF Pos = "incr" THEN 2 ELSE 0)
    /\ \A i \in 1..Len(scalars) :
         /\ scalars[i].step = (i - 1) \div 2
         /\ scalars[i].tag = (IF i % 2 = 1 THEN "Loss/Critic" ELSE "Loss/Generator")
         /\ scalars[i].value[1] = (IF i % 2 = 1 THEN "D" ELSE "G")
         /\ BatchOfLoss(scalars[i].value) = scalars[i].step
    /\ \A i, j \in 1..Len(scalars) :
         (scalars[i].step = scalars[j].step /\ scalars[i].tag = scalars[j].tag)
            => i = j

C5_Witness ==
    /\ pc = "batch_head"
    /\ epoch = 1
    /\ nBatches = 2
    /\ writer_step = 3
    /\ Len(scalars) = 6
    /\ scalars[5].step = 2 /\ scalars[6].step = 2

\* C6: the generator's parameters change only in line 160 and the critic's
\* only in line 152; in particular the critic's backward pass, the
\* generator's update, the sample generation and the checkpoint writes
\* change no parameters but those named.
C6_ParameterFrame ==
    [][/\ params'["G"] # params["G"] => (pc = "g_step" /\ pc' = "log_d")
       /\ params'["D"] # params["D"] => (pc = "d_step" /\ pc' = "critic_head")
       /\ pc \in CriticBody => params'["G"] = params["G"]
       /\ pc \in GeneratorBody => params'["D"] = params["D"]
       /\ pc \in EpochTail => params' = params]_vars

C6_Witness ==
    /\ pc = "d_step"
    /\ params["G"] >= 1
    /\ params["D"] >= 2
    /\ Len(grads["D"]) = 1
    /\ grads["G"] # <<>>

\* C8: an exception ends train() where it is raised: the raising statement
\* has no effect and is not run again, nothing runs after it, and the writer
\* is left unclosed; when line 176 raises, the critic's checkpoint does not
\* hold the critic's current parameters unless there were none to train on.
C8_ExceptionIsFatal ==
    [][/\ pc = "raised" => UNCHANGED vars
       /\ exc' # exc =>
            /\ exc = NoException
            /\ pc' = "raised"
            /\ exc'[2] = pc
            /\ UNCHANGED <<files, writer, epoch, batch, it, writer_step,
                           loss_D, loss_G, params, grads, steps, scalars,
                           images, info>>
       /\ pc' = "raised" =>
            /\ exc' # NoException
            /\ writer' # "closed"
            /\ (exc'[2] = "save_g" /\ params'["D"] > 0) =>
                 \/ <<"dw", timestamp'>> \notin DOMAIN files'
                 \/ files'[<<"dw", timestamp'>>] # <<"D", params'["D"]>>]_vars

C8_Witness ==
    /\ pc = "raised"
    /\ exc = <<"Exception", "save_g">>
    /\ epoch = 1
    /\ params["D"] > 0
    /\ files[<<"gw", timestamp>>] # <<"G", params["G"]>>
    /\ writer = "open"

\* C9: when an optimizer is about to step, the gradient buffer of the
\* network it updates holds the gradient of exactly one backward pass, that
\* of the loss computed last in this iteration.
C9_SingleBackwardPerStep ==
    /\ Pos = "d_step" =>
         /\ loss_D = << <<"D", epoch, batch, it>> >>
         /\ grads["D"] = <<loss_D[1]>>
    /\ Pos = "g_step" =>
         /\ loss_G = << <<"G", epoch, batch>> >>
         /\ grads["G"] = <<loss_G[1]>>

\* The critic is about to step in a later batch: the generator's backward
\* pass of the batch before had left its gradient on the critic.
C9_Witness ==
    /\ pc = "d_step"
    /\ writer_step >= 1
    /\ it = 1
    /\ grads["D"] = << <<"D", epoch, batch, 1>> >>

\* C10: wherever train() reads a loss to record or log it, the loss has
\* been assigned: no batch's recording and no epoch's summary fails on a
\* loss variable that was never assigned.
C10_LossesAlwaysAssigned ==
    /\ pc = "log_d" => loss_D # Unbound
    /\ pc = "summary" => (loss_D # Unbound /\ loss_G # Unbound)
    /\ pc = "raised" => exc[1] # "UnboundLocalError"


(***************************************************************************)
(* Properties of gradient_penalty()                                        *)
(***************************************************************************)
IsNonNegative(x) == ~IsNaN(x) /\ x[2] >= 0

\* C7 as stated: whatever the critic, the batches and the factor, the
\* value returned is a non-negative scalar.
C7_AlwaysNonNegative ==
    gp_pc = "return" => IsNonNegative(gp_locals.result)

\* C7, amended: the value returned is a non-negative scalar whenever the
\* factor is a non-negative finite number and the mean squared deviation of
\* the gradient norms from 1 is a finite number.
C7_NonNegativeForNonNegativeFactor ==
    (/\ gp_pc = "return"
     /\ IsFin(gp_args.factor)
     /\ IsNonNegative(gp_args.factor)
     /\ IsFin(gp_locals.gradient_penalty))
        => IsNonNegative(gp_locals.result)

C7_Witness ==
    /\ gp_pc = "return"
    /\ gp_args.factor = Fin(10 * Scale)
    /\ gp_args.D.kind = "quadratic"
    /\ Len(gp_args.real) = 2
    /\ IsFin(gp_locals.gradient_penalty)
    /\ IsFin(gp_locals.result)
    /\ gp_locals.result[2] > 0

====
